---- MODULE Spec2Model ----
(***************************************************************************)
(* Model of src/linter/VerilatorLinter.ts: the command builder of lint(),  *)
(* the child.exec completion callback (line grammar, numeric coercion,     *)
(* file-path resolution, grouping) and the clear-then-set publication to   *)
(* the shared DiagnosticCollection.                                        *)
(*                                                                         *)
(* Strings are sequences of one-character strings, so that the regular     *)
(* expression, split, join and path operations are computed as the code    *)
(* computes them.  An intermediate value that is used more than once is    *)
(* bound with The({ body : v \in {value} }), which reads "let v be value   *)
(* in body" and evaluates the value once.                                  *)
(***************************************************************************)
EXTENDS Integers, Sequences, FiniteSets, TLC

(* ------------------------------------------------------------------ *)
(* Bounds                                                               *)
(* ------------------------------------------------------------------ *)
\* number of lint requests a behaviour may make
MaxRequests == 2

(* ------------------------------------------------------------------ *)
(* Character classes of the RegExp at line 151                          *)
(* ------------------------------------------------------------------ *)
UpperSeq == <<"A","B","C","D","E","F","G","H","I","J","K","L","M",
             "N","O","P","Q","R","S","T","U","V","W","X","Y","Z">>
LowerSeq == <<"a","b","c","d","e","f","g","h","i","j","k","l","m",
             "n","o","p","q","r","s","t","u","v","w","x","y","z">>
Upper == {UpperSeq[i] : i \in 1..26}
Lower == {LowerSeq[i] : i \in 1..26}
Digits == <<"0","1","2","3","4","5","6","7","8","9">>

IsDigit(c) == \E n \in 1..10 : Digits[n] = c
IsAlpha(c) == c \in Upper \/ c \in Lower
IsWord(c) == IsAlpha(c) \/ IsDigit(c) \/ c = "_"
IsCode(c) == c \in Upper \/ IsDigit(c) \/ c = "_"
IsSpace(c) == c \in {" ", "\t", "\n", "\r", "\f"}
IsDot(c) == c \notin {"\n", "\r"}

\* c belongs to the character class named cls
InClass(c, cls) ==
  CASE cls = "\\d" -> IsDigit(c)
    [] cls = "[a-zA-Z]" -> IsAlpha(c)
    [] cls = "\\w" -> IsWord(c)
    [] cls = "[A-Z0-9_]" -> IsCode(c)
    [] cls = "\\s" -> IsSpace(c)
    [] cls = "." -> IsDot(c)

\* the only element of a one-element set
The(S) == CHOOSE x \in S : TRUE

\* the value of an absent capture group / an unset property
Undefined == <<"undefined">>

\* a JavaScript number: NaN or an integer
NaN == [nan |-> TRUE, val |-> 0]
Num(n) == [nan |-> FALSE, val |-> n]
isNaN(x) == x.nan
Minus(x, n) == IF x.nan THEN NaN ELSE Num(x.val - n)

Max(S) == CHOOSE x \in S : \A y \in S : y <= x
Min(S) == CHOOSE x \in S : \A y \in S : x <= y

\* end (exclusive) of the longest run of characters of class cls starting at i
RunEnd(s, i, cls) ==
  CHOOSE j \in i..(Len(s) + 1) :
    /\ (j = Len(s) + 1 \/ ~InClass(s[j], cls))
    /\ \A m \in i..(j - 1) : InClass(s[m], cls)

\* s at position i is the character c
At(s, i, c) == i >= 1 /\ i <= Len(s) /\ s[i] = c

(* ------------------------------------------------------------------ *)
(* Number(): decimal digits to a number                                 *)
(* ------------------------------------------------------------------ *)
DigitVal(c) == (CHOOSE n \in 1..10 : Digits[n] = c) - 1

\* the value of the first n digits of s
RECURSIVE DecValue(_, _)
DecValue(s, n) ==
  IF n = 0 THEN 0 ELSE 10 * DecValue(s, n - 1) + DigitVal(s[n])

Number(s) ==
  IF s = Undefined THEN NaN
  ELSE IF s = <<>> THEN Num(0)
  ELSE IF \A i \in 1..Len(s) : IsDigit(s[i]) THEN Num(DecValue(s, Len(s)))
  ELSE NaN

(* ------------------------------------------------------------------ *)
(* The line grammar                                                     *)
(*  %(\w+)(-[A-Z0-9_]+)?:\s*(.*\.[a-zA-Z]+):(\d+):(?:\s*(\d+):)?\s*(\s*.+) *)
(* ------------------------------------------------------------------ *)
NoMatch == [matched |-> FALSE]
NoTail == [ok |-> FALSE, col |-> Undefined, from |-> 0, to |-> 0]

\* \s*(\s*.+) from position q, the first \s* ending at w at the latest: the
\* message starts at the last position of q..w that holds a character
TailFrom(s, q, w) ==
  The({ IF cands = {} THEN NoTail
        ELSE [ok |-> TRUE, col |-> Undefined,
              from |-> Max(cands), to |-> RunEnd(s, Max(cands), ".") - 1]
        : cands \in {{p \in q..w : p <= Len(s) /\ IsDot(s[p])}} })

\* \s*(\s*.+) from position q: where the captured message starts and ends
TailMatch(s, q) == The({ TailFrom(s, q, w) : w \in {RunEnd(s, q, "\\s")} })

\* (?:\s*(\d+):)? taken, the digits being w..d-1; skipped when the rest fails
WithColumn(s, c, w, d) ==
  IF d > w /\ At(s, d, ":")
    THEN The({ IF t.ok THEN [t EXCEPT !.col = SubSeq(s, w, d - 1)]
               ELSE TailMatch(s, c)
               : t \in {TailMatch(s, d + 1)} })
  ELSE TailMatch(s, c)

\* (?:\s*(\d+):)?\s*(\s*.+) from position c
ColTailMatch(s, c) ==
  The({ The({ WithColumn(s, c, w, d) : d \in {RunEnd(s, w, "\\d")} })
        : w \in {RunEnd(s, c, "\\s")} })

\* [a-zA-Z]+:(\d+): with the extension at k+1..e-1: the position after it,
\* 0 when it does not match
AfterLineNo(s, k, e) ==
  IF e > k + 1 /\ At(s, e, ":")
    THEN The({ IF d > e + 1 /\ At(s, d, ":") THEN d + 1 ELSE 0
               : d \in {RunEnd(s, e + 1, "\\d")} })
  ELSE 0

\* \.[a-zA-Z]+:(\d+): with the dot at position k: the position after it
AfterDot(s, k) ==
  IF At(s, k, ".")
    THEN The({ AfterLineNo(s, k, e) : e \in {RunEnd(s, k + 1, "[a-zA-Z]")} })
  ELSE 0

\* \.[a-zA-Z]+:(\d+):(?:\s*(\d+):)?\s*(\s*.+) matches with the dot at k
RestOk(s, k) ==
  The({ c > 0 /\ ColTailMatch(s, c).ok : c \in {AfterDot(s, k)} })

\* the captures of the match that starts at s0, has its severity word end
\* before e1, its path at p0..e-1 and the text after the line number at c
Captures(s, s0, e1, g2, p0, e, c) ==
  The({ [matched |-> TRUE,
         g0 |-> SubSeq(s, s0, ct.to),
         g1 |-> SubSeq(s, s0 + 1, e1 - 1),
         g2 |-> g2,
         g3 |-> SubSeq(s, p0, e - 1),
         g4 |-> SubSeq(s, e + 1, c - 2),
         g5 |-> ct.col,
         g6 |-> SubSeq(s, ct.from, ct.to)]
        : ct \in {ColTailMatch(s, c)} })

\* (.*\.[a-zA-Z]+): ... with the path starting at p0: .* is greedy, so the
\* dot is the last one after which the rest matches
PathAt(s, s0, e1, g2, p0) ==
  The({ IF ks = {} THEN NoMatch
        ELSE The({ Captures(s, s0, e1, g2, p0, e, AfterLineNo(s, Max(ks), e))
                   : e \in {RunEnd(s, Max(ks) + 1, "[a-zA-Z]")} })
        : ks \in {{k \in p0..Len(s) :
                     RestOk(s, k) /\ \A m \in p0..(k - 1) : IsDot(s[m])}} })

\* :\s*(.*\.[a-zA-Z]+): ... after the colon at position a - 1
PathMatch(s, s0, e1, g2, a) ==
  The({ PathAt(s, s0, e1, g2, p0) : p0 \in {RunEnd(s, a, "\\s")} })

\* (-[A-Z0-9_]+)?: ... after the severity word that ends before e1
HeadMatch(s, s0, e1) ==
  IF e1 = s0 + 1 THEN NoMatch
  ELSE IF At(s, e1, ":") THEN PathMatch(s, s0, e1, Undefined, e1 + 1)
  ELSE IF At(s, e1, "-")
    THEN The({ IF e2 > e1 + 1 /\ At(s, e2, ":")
                 THEN PathMatch(s, s0, e1, SubSeq(s, e1, e2 - 1), e2 + 1)
               ELSE NoMatch
               : e2 \in {RunEnd(s, e1 + 1, "[A-Z0-9_]")} })
  ELSE NoMatch

\* the whole expression anchored at the '%' of position s0
MatchAt(s, s0) ==
  IF At(s, s0, "%")
    THEN The({ HeadMatch(s, s0, e1) : e1 \in {RunEnd(s, s0 + 1, "\\w")} })
  ELSE NoMatch

\* the positions at which the expression matches
MatchStarts(s) == {i \in 1..Len(s) : MatchAt(s, i).matched}

\* line.match(re): the leftmost match
ReMatch(line) ==
  The({ The({ IF starts = {} THEN NoMatch ELSE MatchAt(s, Min(starts))
              : starts \in {MatchStarts(s)} })
        : s \in {line} })

\* line.search(re)
ReSearch(line) ==
  The({ IF starts = {} THEN -1 ELSE Min(starts) - 1
        : starts \in {MatchStarts(line)} })

(* ------------------------------------------------------------------ *)
(* String operations used by lint() and its callback                    *)
(* ------------------------------------------------------------------ *)
Last(q) == q[Len(q)]
Front(q) == SubSeq(q, 1, Len(q) - 1)

\* String.prototype.startsWith
StartsWith(s, prefix) ==
  Len(s) >= Len(prefix) /\ SubSeq(s, 1, Len(prefix)) = prefix

\* String.prototype.lastIndexOf for a one-character needle (zero-based, -1 if absent)
LastIndexOf(s, c) ==
  The({ IF hits = {} THEN -1 ELSE Max(hits) - 1
        : hits \in {{i \in 1..Len(s) : s[i] = c}} })

\* String.prototype.substr(0, n)
Substr0(s, n) == IF n <= 0 THEN <<>> ELSE SubSeq(s, 1, IF n < Len(s) THEN n ELSE Len(s))

\* position i of s starts a line terminator's carriage return
IsCrOfCrLf(s, i) == i >= 1 /\ i < Len(s) /\ s[i] = "\r" /\ s[i + 1] = "\n"

\* the pieces of s from position from on, cut at every /\r?\n/
RECURSIVE SplitLinesFrom(_, _)
SplitLinesFrom(s, from) ==
  The({ IF nl = {} THEN <<SubSeq(s, from, Len(s))>>
        ELSE The({ <<SubSeq(s, from, IF IsCrOfCrLf(s, p - 1) THEN p - 2 ELSE p - 1)>>
                     \o SplitLinesFrom(s, p + 1)
                   : p \in {Min(nl)} })
        : nl \in {{i \in from..Len(s) : s[i] = "\n"}} })

\* split(/\r?\n/g)
SplitLines(text) == The({ SplitLinesFrom(s, 1) : s \in {text} })

\* the concatenation of parts[i..] with sep between the elements
RECURSIVE JoinFrom(_, _, _)
JoinFrom(parts, i, sep) ==
  IF i > Len(parts) THEN <<>>
  ELSE IF i = Len(parts) THEN parts[i]
  ELSE parts[i] \o sep \o JoinFrom(parts, i + 1, sep)

\* Array.prototype.join with a separator string
JoinWith(list, sep) == The({ JoinFrom(parts, 1, sep) : parts \in {list} })

\* replace(/\\/g, '/')
ReplaceBackslashes(text) ==
  The({ [i \in 1..Len(s) |-> IF s[i] = "\\" THEN "/" ELSE s[i]] : s \in {text} })

\* replace(/\r?\n/g, ''): what is left between the line terminators
StripNewlines(text) == JoinWith(SplitLines(text), <<>>)

(* ------------------------------------------------------------------ *)
(* Node's path module (posix and win32 flavours; UNC roots not covered)  *)
(* ------------------------------------------------------------------ *)
IsSep(c, win) == c = "/" \/ (win /\ c = "\\")
SepOf(win) == IF win THEN "\\" ELSE "/"

\* the pieces of s from position from on, cut at every separator character
RECURSIVE SplitSegsFrom(_, _, _)
SplitSegsFrom(s, from, win) ==
  The({ IF seps = {} THEN <<SubSeq(s, from, Len(s))>>
        ELSE The({ <<SubSeq(s, from, p - 1)>> \o SplitSegsFrom(s, p + 1, win)
                   : p \in {Min(seps)} })
        : seps \in {{i \in from..Len(s) : IsSep(s[i], win)}} })

\* split a string at every separator character
SplitSegs(text, win) == The({ SplitSegsFrom(s, 1, win) : s \in {text} })

\* normalizeString: drop '' and '.', resolve '..'
RECURSIVE NormalizeSegs(_, _, _)
NormalizeSegs(segs0, acc0, allowAboveRoot) ==
  The({ IF segs = <<>> THEN acc
        ELSE IF Head(segs) = <<>> \/ Head(segs) = <<".">>
          THEN NormalizeSegs(Tail(segs), acc, allowAboveRoot)
        ELSE IF Head(segs) = <<".", ".">>
          THEN IF acc # <<>> /\ Last(acc) # <<".", ".">>
                 THEN NormalizeSegs(Tail(segs), Front(acc), allowAboveRoot)
               ELSE IF allowAboveRoot
                 THEN NormalizeSegs(Tail(segs), Append(acc, Head(segs)), allowAboveRoot)
               ELSE NormalizeSegs(Tail(segs), acc, allowAboveRoot)
        ELSE NormalizeSegs(Tail(segs), Append(acc, Head(segs)), allowAboveRoot)
        : <<segs, acc>> \in {<<segs0, acc0>>} })

\* length of the device prefix ("C:") of a win32 path
DeviceLen(p, win) ==
  IF win /\ Len(p) >= 2 /\ IsAlpha(p[1]) /\ p[2] = ":" THEN 2 ELSE 0

\* path.isAbsolute
PathIsAbsolute(p, win) ==
  Len(p) > DeviceLen(p, win) /\ IsSep(p[DeviceLen(p, win) + 1], win)

\* the normalized path made of the device p[1..r], the root separator of an
\* absolute path and the normalized segments joined into body
Assemble(p, r, body, win) ==
  SubSeq(p, 1, r)
    \o (IF PathIsAbsolute(p, win) THEN <<SepOf(win)>> ELSE <<>>)
    \o (IF body # <<>>
          THEN (IF IsSep(Last(p), win) /\ Len(p) > r
                  THEN Append(body, SepOf(win)) ELSE body)
        ELSE IF PathIsAbsolute(p, win) THEN <<>>
        ELSE IF IsSep(Last(p), win) /\ Len(p) > r THEN <<".", SepOf(win)>>
        ELSE <<".">>)

\* path.normalize
PathNormalize(path, win) ==
  The({ IF p = <<>> THEN <<".">>
        ELSE The({ Assemble(p, DeviceLen(p, win), body, win)
                   : body \in {JoinWith(
                        NormalizeSegs(
                          SplitSegs(SubSeq(p, DeviceLen(p, win) + 1, Len(p)), win),
                          <<>>, ~PathIsAbsolute(p, win)),
                        <<SepOf(win)>>)} })
        : p \in {path} })

\* path.join of two arguments
PathJoin(a, b, win) ==
  The({ IF parts = <<>> THEN <<".">>
        ELSE PathNormalize(JoinWith(parts, <<SepOf(win)>>), win)
        : parts \in {SelectSeq(<<a, b>>, LAMBDA x : x # <<>>)} })

(* ------------------------------------------------------------------ *)
(* The completion callback of child.exec (lines 137-206)                *)
(* ------------------------------------------------------------------ *)
\* getSeverity
getSeverity(severityString) ==
  IF StartsWith(severityString, <<"E","r","r","o","r">>) THEN "Error"
  ELSE IF StartsWith(severityString, <<"W","a","r","n","i","n","g">>) THEN "Warning"
  ELSE "Information"

\* new Range(startLine, startCharacter, endLine, endCharacter)
Range(sl, sc, el, ec) ==
  [startLine |-> sl, startCharacter |-> sc, endLine |-> el, endCharacter |-> ec]

\* Uri.file(filename): the key of the collection entry
UriFile(filename) == [scheme |-> "file", fsPath |-> filename]

\* variant of ResolveFilename: every captured path is joined onto the root
\* unless the linter ran at the file location
ResolveFilenameAlwaysJoin(captured, runAt, root, win) ==
  IF runAt THEN captured ELSE PathJoin(root, captured, win)

\* line 159: the file path a diagnostic is filed under
ResolveFilename(captured, runAt, root, win) ==
  IF runAt THEN captured
  ELSE IF PathIsAbsolute(captured, win) THEN captured
  ELSE PathJoin(root, captured, win)

\* Object.keys(diagnostics).indexOf(filename), one-based, 0 when absent
KeyIndex(diagnostics, filename) ==
  The({ IF hits = {} THEN 0 ELSE Min(hits)
        : hits \in {{i \in 1..Len(diagnostics) : diagnostics[i].filename = filename}} })

\* variant of AddDiagnostic: a later diagnostic replaces the list of its file
AddDiagnosticOverwrite(diagnostics, filename, diagnostic) ==
  The({ IF i = 0
          THEN Append(diagnostics, [filename |-> filename, list |-> <<diagnostic>>])
        ELSE [diagnostics EXCEPT ![i].list = <<diagnostic>>]
        : i \in {KeyIndex(diagnostics, filename)} })

\* lines 184-188: file the diagnostic under its file name, in encounter order
AddDiagnostic(diagnostics, filename, diagnostic) ==
  The({ IF i = 0
          THEN Append(diagnostics, [filename |-> filename, list |-> <<diagnostic>>])
        ELSE [diagnostics EXCEPT ![i].list = Append(@, diagnostic)]
        : i \in {KeyIndex(diagnostics, filename)} })

\* lines 173-181: the Diagnostic built from the captures, lineNum and colNum
Diagnostic(rex, lineNum, colNum) ==
  [severity |-> getSeverity(rex.g1),
   range |-> Range(lineNum.val, colNum.val, lineNum.val, "Number.MAX_VALUE"),
   message |-> rex.g6,
   code |-> IF rex.g2 # Undefined THEN Tail(rex.g2)
            ELSE <<"v","e","r","i","l","a","t","o","r">>,
   source |-> "verilator"]

\* lines 161-164: colNum = Number(rex[5]) - 1, or 0 when that is NaN
ColNum(rex) ==
  IF isNaN(Minus(Number(rex.g5), 1)) THEN Num(0) ELSE Minus(Number(rex.g5), 1)

\* lines 166-194: a line whose match is rex, filed under filename
FileMatch(acc, rex, filename, lineNum) ==
  IF ~isNaN(lineNum)
    THEN [diagnostics |-> AddDiagnostic(acc.diagnostics, filename,
                                        Diagnostic(rex, lineNum, ColNum(rex))),
          log |-> acc.log,
          console |-> acc.console \o
            <<[severity |-> getSeverity(rex.g1), lineNum |-> lineNum.val,
               text |-> rex.g6],
              [severity |-> "", lineNum |-> 0, text |-> filename]>>]
  ELSE acc

\* the body of lines.forEach for one line; acc holds the diagnostics object,
\* the logger entries and the console.log entries produced so far
ParseLine(acc, line, runAt, root, win) ==
  IF ReSearch(line) # -1
    THEN The({ IF rex.matched /\ Len(rex.g0) > 0
                 THEN The({ FileMatch(acc, rex, filename, Minus(Number(rex.g4), 1))
                            : filename \in {ResolveFilename(rex.g3, runAt, root, win)} })
               ELSE [acc EXCEPT !.log = Append(@,
                       [text |-> <<"failed to parse error: ">> \o line, sev |-> "warn"])]
               : rex \in {ReMatch(line)} })
  ELSE acc

\* lines.forEach over lines[i..]
RECURSIVE ParseLines(_, _, _, _, _, _)
ParseLines(lines, i, acc, runAt, root, win) ==
  IF i > Len(lines) THEN acc
  ELSE The({ ParseLines(lines, i + 1, next, runAt, root, win)
             : next \in {The({ ParseLine(acc, line, runAt, root, win)
                               : line \in {lines[i]} })} })

\* lines 145-198: split the error stream and run the loop body on every line
ParseText(stderr, runAt, root, win) ==
  The({ ParseLines(lines, 1, [diagnostics |-> <<>>, log |-> <<>>, console |-> <<>>],
                   runAt, root, win)
        : lines \in {SplitLines(stderr)} })

\* DiagnosticCollection
EmptyCollection == [u \in {} |-> <<>>]
CollectionSet(coll, uri, list) ==
  [u \in (DOMAIN coll) \cup {uri} |-> IF u = uri THEN list ELSE coll[u]]

\* for (const filename in diagnostics) diagnosticCollection.set(...)
RECURSIVE SetAll(_, _)
SetAll(coll, diagnostics) ==
  IF diagnostics = <<>> THEN coll
  ELSE The({ SetAll(next, Tail(diagnostics))
             : next \in {CollectionSet(coll, UriFile(Head(diagnostics).filename),
                                       Head(diagnostics).list)} })

\* variant of ClearThenSet: the new entries are set without clearing
SetWithoutClear(coll, diagnostics) == SetAll(coll, diagnostics)

\* variant of ClearThenSet: the collection is cleared after the set loop
SetThenClear(coll, diagnostics) == EmptyCollection

\* lines 199-205: diagnosticCollection.clear() followed by the set loop
ClearThenSet(coll, diagnostics) == SetAll(EmptyCollection, diagnostics)

(* ------------------------------------------------------------------ *)
(* lint(doc): command building and launch (lines 84-136)                *)
(* ------------------------------------------------------------------ *)
ToLower(c) ==
  IF c \in Upper THEN LowerSeq[CHOOSE i \in 1..26 : UpperSeq[i] = c] ELSE c

\* what `wsl wslpath '<p>'` prints for a Windows path: the path in the
\* subsystem's namespace followed by a newline
WslPathOutput(p) ==
  (IF DeviceLen(p, TRUE) = 2 THEN <<"/","m","n","t","/", ToLower(p[1])>> ELSE <<>>)
    \o ReplaceBackslashes(SubSeq(p, DeviceLen(p, TRUE) + 1, Len(p))) \o <<"\n">>

NoExec == [launched |-> FALSE, command |-> <<>>, cwd |-> <<>>]
NoThrow == [raised |-> FALSE, message |-> <<>>]

\* child.execSync throws when the helper fails
ExecSyncError(cmd) == [raised |-> TRUE, message |-> <<"Command failed: ">> \o cmd]

WslPathCmd(p) == <<"w","s","l"," ","w","s","l","p","a","t","h"," ","'">> \o p \o <<"'">>

\* lines 86-91: the folder of the document
DocFolderOf(docUri, win) ==
  Substr0(docUri, LastIndexOf(docUri, IF win THEN "\\" ELSE "/"))

SvArgs(doc) == IF doc.languageId = "systemverilog" THEN <<"-","s","v">> ELSE <<>>

\* lines 95, 98, 119: the binary name
VerilatorName(win, wsl) ==
  IF win
    THEN IF wsl THEN <<"w","s","l"," ","v","e","r","i","l","a","t","o","r">>
         ELSE <<"v","e","r","i","l","a","t","o","r","_","b","i","n",".","e","x","e">>
  ELSE <<"v","e","r","i","l","a","t","o","r">>

\* lines 124-131
BuildCommand(vPath, verilator, svArgs, docFolder, vArgs, docUri, win) ==
  JoinWith(<<PathJoin(vPath, verilator, win),
             svArgs,
             <<"-","-","l","i","n","t","-","o","n","l","y">>,
             <<"-","I">> \o docFolder,
             vArgs,
             docUri>>, <<" ">>)

LogEntry(text, sev) == [text |-> text, sev |-> sev]

\* line 85
RequestLog == <<LogEntry(<<"verilator lint requested">>, "default")>>

\* lines 104-107 and 114-117
RewroteLog(what, to) ==
  LogEntry(<<"Rewrote ">> \o what \o <<" to ">> \o to \o <<" for WSL">>, "info")

\* lines 124-136: the command is logged and handed to child.exec
Launch(log, helper, command, cwd) ==
  [log |-> Append(log, LogEntry(command, "command")),
   helper |-> helper,
   exec |-> [launched |-> TRUE, command |-> command, cwd |-> cwd],
   thrown |-> NoThrow]

\* lines 109-136 once the first helper has given docUri
LintWslFolder(doc, docUri, docFolder0, vPath, vArgs, cwd, ok2) ==
  IF ~ok2
    THEN [log |-> Append(RequestLog, RewroteLog(<<"docUri">>, docUri)),
          helper |-> <<[command |-> WslPathCmd(doc.fsPath), ok |-> TRUE],
                       [command |-> WslPathCmd(docFolder0), ok |-> FALSE]>>,
          exec |-> NoExec,
          thrown |-> ExecSyncError(WslPathCmd(docFolder0))]
  ELSE The({ The({ Launch(RequestLog \o <<RewroteLog(<<"docUri">>, docUri),
                                          RewroteLog(<<"docFolder">>, docFolder)>>,
                          <<[command |-> WslPathCmd(doc.fsPath), ok |-> TRUE],
                            [command |-> WslPathCmd(docFolder0), ok |-> TRUE]>>,
                          command, cwd)
                   : command \in {BuildCommand(vPath, VerilatorName(TRUE, TRUE),
                                               SvArgs(doc), docFolder, vArgs,
                                               docUri, TRUE)} })
             : docFolder \in {StripNewlines(WslPathOutput(docFolder0))} })

\* lines 97-136 on Windows with useWSL
LintWsl(doc, docFolder0, vPath, vArgs, cwd, ok1, ok2) ==
  IF ~ok1
    THEN [log |-> RequestLog,
          helper |-> <<[command |-> WslPathCmd(doc.fsPath), ok |-> FALSE]>>,
          exec |-> NoExec,
          thrown |-> ExecSyncError(WslPathCmd(doc.fsPath))]
  ELSE The({ LintWslFolder(doc, docUri, docFolder0, vPath, vArgs, cwd, ok2)
             : docUri \in {StripNewlines(WslPathOutput(doc.fsPath))} })

\* lines 118-136 without WSL
LintDirect(doc, docFolder0, vPath, vArgs, cwd, win) ==
  The({ Launch(RequestLog, <<>>, command, cwd)
        : command \in {BuildCommand(
             vPath, VerilatorName(win, FALSE), SvArgs(doc),
             IF win THEN ReplaceBackslashes(docFolder0) ELSE docFolder0,
             vArgs,
             IF win THEN ReplaceBackslashes(doc.fsPath) ELSE doc.fsPath,
             win)} })

\* variant of LintCall: a failed helper is swallowed and the command is built
\* from the untranslated path
LintCallFallback(doc, vPath, vArgs, runAt, wsl, win, root, ok1, ok2) ==
  The({ IF win /\ wsl
          THEN Launch(RequestLog,
                      <<[command |-> WslPathCmd(doc.fsPath), ok |-> ok1],
                        [command |-> WslPathCmd(docFolder0), ok |-> ok2]>>,
                      BuildCommand(
                        vPath, VerilatorName(TRUE, TRUE), SvArgs(doc),
                        IF ok2 THEN StripNewlines(WslPathOutput(docFolder0))
                        ELSE docFolder0,
                        vArgs,
                        IF ok1 THEN StripNewlines(WslPathOutput(doc.fsPath))
                        ELSE doc.fsPath,
                        TRUE),
                      IF runAt THEN docFolder0 ELSE root)
        ELSE LintDirect(doc, docFolder0, vPath, vArgs,
                        IF runAt THEN docFolder0 ELSE root, win)
        : docFolder0 \in {DocFolderOf(doc.fsPath, win)} })

\* one call of lint: the logger entries, the execSync calls, the child.exec
\* call (if reached) and the exception leaving lint (if any).  ok1 and ok2
\* say whether the first and the second path-translation helper succeed.
LintCall(doc, vPath, vArgs, runAt, wsl, win, root, ok1, ok2) ==
  The({ IF win /\ wsl
          THEN LintWsl(doc, docFolder0, vPath, vArgs,
                       IF runAt THEN docFolder0 ELSE root, ok1, ok2)
        ELSE LintDirect(doc, docFolder0, vPath, vArgs,
                        IF runAt THEN docFolder0 ELSE root, win)
        : docFolder0 \in {DocFolderOf(doc.fsPath, win)} })

(* ------------------------------------------------------------------ *)
(* Inputs: documents, configuration values and linter output texts      *)
(* ------------------------------------------------------------------ *)
LineA == <<"%","E","r","r","o","r",":"," ","/","t","m","p","/","f","o","o",".","s","v",
           ":","1","0",":"," ","s","y","n","t","a","x"," ","e","r","r","o","r">>
LineB == <<"%","W","a","r","n","i","n","g","-","W","I","D","T","H",":"," ",
           "f","o","o",".","s","v",":","5",":","3",":"," ",
           "b","i","t"," ","w","i","d","t","h"," ","m","i","s","m","a","t","c","h">>
LineNoise == <<"p","l","a","i","n"," ","n","o","i","s","e">>
LineZero == <<"%","E","r","r","o","r",":"," ","f","o","o",".","s","v",":","0",":"," ",
              "z","e","r","o">>
LineInc == <<"%","E","r","r","o","r",":"," ","i","n","c",".","v","h",":","2",":"," ","x">>
LineFoo2 == <<"%","E","r","r","o","r","-","E","1",":"," ","f","o","o",".","s","v",
              ":","7",":","1",":"," ","e","2">>
LinePartial == <<"%","E","r","r","o","r",":"," ","n","o"," ",
                 "l","o","c","a","t","i","o","n">>

StderrTexts ==
  { <<>>,
    LineA \o <<"\r", "\n">> \o LineNoise,
    LineB \o <<"\n">> \o LineInc \o <<"\n">> \o LineFoo2,
    LineZero,
    LinePartial \o <<"\n">> \o LineInc }

RootOf(win) == IF win THEN <<"C",":","\\","p","r","o","j">> ELSE <<"/","p","r","o","j">>

DocsOf(win) ==
  IF win
    THEN {[fsPath |-> <<"C",":","\\","p","r","o","j","\\","a",".","s","v">>,
           languageId |-> "systemverilog"],
          [fsPath |-> <<"C",":","\\","p","r","o","j","\\","b",".","v">>,
           languageId |-> "verilog"]}
  ELSE {[fsPath |-> <<"/","p","r","o","j","/","a",".","s","v">>,
         languageId |-> "systemverilog"],
        [fsPath |-> <<"/","p","r","o","j","/","b",".","v">>,
         languageId |-> "verilog"]}

PathSettings == {<<>>, <<"/","o","p","t">>}
ArgSettings == {<<>>, <<"-","W","a","l","l">>}

\* the parse of every output text a run can produce, computed once
ParseInputs == StderrTexts \X BOOLEAN \X {RootOf(w) : w \in BOOLEAN} \X BOOLEAN
ParseTable == {<<k, ParseText(k[1], k[2], k[3], k[4])>> : k \in ParseInputs}

ParseOutput(stderr, runAt, root, win) ==
  (CHOOSE e \in ParseTable : e[1] = <<stderr, runAt, root, win>>)[2]

\* the error argument of the callback: null, a non-zero exit, or a failed launch
NoError == [kind |-> "none", message |-> <<>>]
ExitError == [kind |-> "exit", message |-> <<"Command failed">>]
LaunchError == [kind |-> "launch", message |-> <<"spawn ENOENT">>]

\* lines 200-202: diagnostics is an object, so diagnostics.length is undefined
SummaryLog ==
  [text |-> Undefined \o <<" errors/warnings returned">>, sev |-> "default"]

\* variant of ExecCallback: an error ends the callback before anything is parsed
\* or published
ExecCallbackReturnOnError(coll, error, stderr, runAt, root, win) ==
  IF error.kind # "none"
    THEN [collection |-> coll,
          diagnostics |-> <<>>,
          log |-> <<[text |-> error.message, sev |-> "error"]>>,
          console |-> <<>>]
  ELSE The({ [collection |-> ClearThenSet(coll, parsed.diagnostics),
              diagnostics |-> parsed.diagnostics,
              log |-> Append(parsed.log, SummaryLog),
              console |-> parsed.console]
             : parsed \in {ParseOutput(stderr, runAt, root, win)} })

\* the whole callback: what it leaves in the collection, the logger and the console
ExecCallback(coll, error, stderr, runAt, root, win) ==
  The({ [collection |-> ClearThenSet(coll, parsed.diagnostics),
         diagnostics |-> parsed.diagnostics,
         log |-> (IF error.kind # "none"
                    THEN <<[text |-> error.message, sev |-> "error"]>>
                  ELSE <<>>)
                   \o Append(parsed.log, SummaryLog),
         console |-> parsed.console]
        : parsed \in {ParseOutput(stderr, runAt, root, win)} })


\* (error, stderr) pairs a child process can end with; a failed launch has
\* produced no output
Outcomes ==
  {[error |-> e, stderr |-> t] : e \in {NoError, ExitError}, t \in StderrTexts}
    \cup {[error |-> LaunchError, stderr |-> <<>>]}

(* ------------------------------------------------------------------ *)
(* State                                                                *)
(* ------------------------------------------------------------------ *)
VARIABLES
  isWindows,            \* process.platform === 'win32'
  rootPath,             \* workspace.rootPath
  verilatorPath,        \* this.verilatorPath
  verilatorArgs,        \* this.verilatorArgs
  runAtFileLocation,    \* this.runAtFileLocation
  useWSL,               \* this.useWSL
  diagnosticCollection, \* this.diagnosticCollection: uri -> list of diagnostics
  pending,              \* child processes whose callback has not run yet
  requested,            \* number of lint calls made so far
  lastOp,               \* the handler that ran last
  logged,               \* logger entries written by the handler that ran last
  console,              \* console.log entries written by the handler that ran last
  helperCalls,          \* execSync calls made by the handler that ran last
  launched,             \* the child.exec call made by the handler that ran last
  thrown,               \* the exception that left the handler that ran last
  lastDone,             \* the callback that ran last: its run, inputs and result
  overlapped            \* runs that were in flight together with another run

vars == <<isWindows, rootPath, verilatorPath, verilatorArgs, runAtFileLocation, useWSL,
          diagnosticCollection, pending, requested, lastOp, logged, console,
          helperCalls, launched, thrown, lastDone, overlapped>>

NoneDone == [id |-> 0, error |-> NoError, stderr |-> <<>>, runAt |-> FALSE,
             diagnostics |-> <<>>, hadEntries |-> FALSE]

\* the constructor: getConfig() reads the settings; nothing has been linted
Init ==
  /\ isWindows \in BOOLEAN
  /\ rootPath = RootOf(isWindows)
  /\ verilatorPath \in PathSettings
  /\ verilatorArgs \in ArgSettings
  /\ runAtFileLocation \in BOOLEAN
  /\ useWSL \in BOOLEAN
  /\ diagnosticCollection = EmptyCollection
  /\ pending = {}
  /\ requested = 0
  /\ lastOp = "constructor"
  /\ logged = <<>>
  /\ console = <<>>
  /\ helperCalls = <<>>
  /\ launched = NoExec
  /\ thrown = NoThrow
  /\ lastDone = NoneDone
  /\ overlapped = {}

\* workspace.onDidChangeConfiguration -> getConfig()
ChangeConfiguration ==
  /\ \E p \in PathSettings, a \in ArgSettings, r \in BOOLEAN, w \in BOOLEAN :
       /\ <<p, a, r, w>> # <<verilatorPath, verilatorArgs, runAtFileLocation, useWSL>>
       /\ verilatorPath' = p
       /\ verilatorArgs' = a
       /\ runAtFileLocation' = r
       /\ useWSL' = w
  /\ lastOp' = "getConfig"
  /\ logged' = <<>>
  /\ console' = <<>>
  /\ helperCalls' = <<>>
  /\ launched' = NoExec
  /\ thrown' = NoThrow
  /\ UNCHANGED <<isWindows, rootPath, diagnosticCollection, pending, requested,
                 lastDone, overlapped>>

\* lint(doc)
Lint ==
  /\ requested < MaxRequests
  /\ \E doc \in DocsOf(isWindows), ok1 \in BOOLEAN, ok2 \in BOOLEAN :
       \* the helpers run only on Windows with WSL, and the second one only
       \* after the first has succeeded
       /\ (isWindows /\ useWSL) \/ (ok1 /\ ok2)
       /\ ok1 \/ ok2
       /\ \E r \in {LintCall(doc, verilatorPath, verilatorArgs, runAtFileLocation,
                             useWSL, isWindows, rootPath, ok1, ok2)} :
            /\ logged' = r.log
            /\ helperCalls' = r.helper
            /\ launched' = r.exec
            /\ thrown' = r.thrown
            /\ pending' = IF r.exec.launched THEN pending \cup {requested + 1}
                          ELSE pending
            /\ overlapped' = IF r.exec.launched /\ pending # {}
                               THEN overlapped \cup pending \cup {requested + 1}
                             ELSE overlapped
  /\ requested' = requested + 1
  /\ lastOp' = "lint"
  /\ console' = <<>>
  /\ UNCHANGED <<isWindows, rootPath, verilatorPath, verilatorArgs, runAtFileLocation,
                 useWSL, diagnosticCollection, lastDone>>

\* the completion callback of one child process
Complete ==
  \E o \in Outcomes :
    \E r \in {ExecCallback(diagnosticCollection, o.error, o.stderr,
                           runAtFileLocation, rootPath, isWindows)} :
     \E id \in pending :
       /\ diagnosticCollection' = r.collection
       /\ logged' = r.log
       /\ console' = r.console
       /\ lastDone' = [id |-> id, error |-> o.error, stderr |-> o.stderr,
                       runAt |-> runAtFileLocation,
                       diagnostics |-> r.diagnostics,
                       hadEntries |-> diagnosticCollection # EmptyCollection]
       /\ pending' = pending \ {id}
       /\ lastOp' = "callback"
       /\ helperCalls' = <<>>
       /\ launched' = NoExec
       /\ thrown' = NoThrow
       /\ UNCHANGED <<isWindows, rootPath, verilatorPath, verilatorArgs,
                      runAtFileLocation, useWSL, requested, overlapped>>

Next == ChangeConfiguration \/ Lint \/ Complete

Spec == Init /\ [][Next]_vars


(* ------------------------------------------------------------------ *)
(* Properties                                                           *)
(* ------------------------------------------------------------------ *)
\* the collection that holds exactly the entries of a DiagnosticSet
PublishedOf(diagnostics) ==
  [u \in {UriFile(diagnostics[i].filename) : i \in 1..Len(diagnostics)} |->
     diagnostics[CHOOSE i \in 1..Len(diagnostics) :
                   UriFile(diagnostics[i].filename) = u].list]

\* this step is the completion callback of some run
CallbackStep == pending' # pending /\ pending' \subseteq pending

\* for every output text: its lines, whether each matches the grammar and
\* the file path it captures
FactOf(line) ==
  The({ [line |-> line,
         matched |-> rex.matched,
         path |-> IF rex.matched THEN rex.g3 ELSE <<>>]
        : rex \in {ReMatch(line)} })
FactsOf(text) ==
  The({ [i \in 1..Len(lines) |-> FactOf(lines[i])] : lines \in {SplitLines(text)} })

LineFactTable == {<<t, FactsOf(t)>> : t \in StderrTexts}
LineFacts(t) == (CHOOSE e \in LineFactTable : e[1] = t)[2]

\* the console.log entries that print a file name / a diagnostic
FileEntries(c) == SelectSeq(c, LAMBDA e : e.severity = "")
DiagEntries(c) == SelectSeq(c, LAMBDA e : e.severity # "")

\* C1: the completion callback of any run leaves in the collection exactly
\* the entries of that run's DiagnosticSet; every entry that was there
\* before and whose file the new set does not mention is gone, and the
\* collection is empty when the run produced no diagnostics.
C1_ClearAndReplace ==
  [][CallbackStep =>
       /\ diagnosticCollection' = PublishedOf(lastDone'.diagnostics)
       /\ \A u \in DOMAIN diagnosticCollection :
            (\A i \in 1..Len(lastDone'.diagnostics) :
               UriFile(lastDone'.diagnostics[i].filename) # u)
              => u \notin DOMAIN diagnosticCollection'
       /\ (lastDone'.diagnostics = <<>> => diagnosticCollection' = EmptyCollection)]_vars

\* a callback that produced no diagnostics has emptied a collection that
\* held entries of an earlier run
C1_Witness ==
  /\ lastOp = "callback"
  /\ lastDone.hadEntries
  /\ lastDone.diagnostics = <<>>
  /\ diagnosticCollection = EmptyCollection

\* C2: when two runs overlap, the collection after their callbacks is the
\* DiagnosticSet of the run whose callback ran last, whichever was requested
\* first, and at no time does it hold entries of a run other than the one
\* whose callback ran last.
C2_LastCompletionWins ==
  lastDone.id \in overlapped =>
    /\ diagnosticCollection = PublishedOf(lastDone.diagnostics)
    /\ \A u \in DOMAIN diagnosticCollection :
         \E i \in 1..Len(lastDone.diagnostics) :
           /\ u = UriFile(lastDone.diagnostics[i].filename)
           /\ diagnosticCollection[u] = lastDone.diagnostics[i].list

\* run 2 was requested while run 1 was in flight, the callback of run 2 ran
\* first and published entries, and the callback of run 1 ran last
C2_Witness ==
  /\ overlapped = {1, 2}
  /\ pending = {}
  /\ lastDone.id = 1
  /\ lastDone.hadEntries
  /\ lastDone.diagnostics # <<>>
  /\ diagnosticCollection = PublishedOf(lastDone.diagnostics)

\* C3 as stated: the callback of a run whose launch failed leaves the
\* collection as it was.
C3_Original ==
  [][(CallbackStep /\ lastDone'.error.kind = "launch")
       => diagnosticCollection' = diagnosticCollection]_vars

\* C3 amended: the callback of a run whose launch failed logs the error,
\* produces no diagnostics and clears the collection.
C3_LaunchFailureClears ==
  (lastOp = "callback" /\ lastDone.error.kind = "launch") =>
    /\ lastDone.diagnostics = <<>>
    /\ diagnosticCollection = EmptyCollection
    /\ Len(logged) >= 1
    /\ logged[1] = [text |-> lastDone.error.message, sev |-> "error"]

\* the callback of a failed launch has run on a collection that held entries
C3_Witness ==
  /\ lastOp = "callback"
  /\ lastDone.error.kind = "launch"
  /\ lastDone.hadEntries
  /\ diagnosticCollection = EmptyCollection

\* C4: every diagnostic in the collection has a non-negative line.
C4_NonNegativeLine ==
  \A u \in DOMAIN diagnosticCollection :
    \A i \in 1..Len(diagnosticCollection[u]) :
      diagnosticCollection[u][i].range.startLine >= 0

\* C5: for every non-empty output line that does not match the grammar the
\* callback writes exactly one warning-level "failed to parse" entry.
C5_UnparseableLogged ==
  lastOp = "callback" =>
    LET facts == LineFacts(lastDone.stderr)
    IN \A i \in 1..Len(facts) :
         (~facts[i].matched /\ facts[i].line # <<>>) =>
           Cardinality({j \in 1..Len(logged) :
                          /\ logged[j].sev = "warn"
                          /\ logged[j].text = <<"failed to parse error: ">> \o facts[i].line})
             = Cardinality({k \in 1..Len(facts) : facts[k].line = facts[i].line})

\* C6: no call of lint ends with an exception.
C6_LintNeverThrows == lastOp = "lint" => ~thrown.raised

\* the path `wsl wslpath` gives for each document and for its folder
WslDocPath(doc) ==
  IF doc.languageId = "systemverilog"
    THEN <<"/","m","n","t","/","c","/","p","r","o","j","/","a",".","s","v">>
  ELSE <<"/","m","n","t","/","c","/","p","r","o","j","/","b",".","v">>
WslFolderFlag == <<"-","I","/","m","n","t","/","c","/","p","r","o","j"," ">>

EndsWith(s, suffix) ==
  Len(s) >= Len(suffix) /\ SubSeq(s, Len(s) - Len(suffix) + 1, Len(s)) = suffix
Contains(s, sub) ==
  \E i \in 1..(Len(s) - Len(sub) + 1) : SubSeq(s, i, i + Len(sub) - 1) = sub

\* C7: on Windows with WSL, a lint call in which a path-translation helper
\* failed launches no child process, and a child process is launched only
\* after the helper has translated the file path and then the folder, with
\* a command built from the two translated paths.
C7_NoLaunchWithoutTranslation ==
  (lastOp = "lint" /\ isWindows /\ useWSL) =>
    /\ (\E i \in 1..Len(helperCalls) : ~helperCalls[i].ok) => ~launched.launched
    /\ launched.launched =>
         /\ Len(helperCalls) = 2
         /\ helperCalls[1].ok /\ helperCalls[2].ok
         /\ \E doc \in DocsOf(TRUE) :
              /\ helperCalls[1].command = WslPathCmd(doc.fsPath)
              /\ helperCalls[2].command = WslPathCmd(RootOf(TRUE))
              /\ EndsWith(launched.command, <<" ">> \o WslDocPath(doc))
              /\ Contains(launched.command, WslFolderFlag)

\* the second helper failed after the first succeeded, and nothing was launched
C7_Witness ==
  /\ lastOp = "lint"
  /\ isWindows /\ useWSL
  /\ Len(helperCalls) = 2
  /\ helperCalls[1].ok /\ ~helperCalls[2].ok
  /\ ~launched.launched
  /\ pending = {}

\* C8: the file path of each diagnostic is the captured path when the
\* linter runs at the file location or the captured path is absolute, and
\* the captured path joined onto the workspace root otherwise; foo.sv with
\* root /proj gives /proj/foo.sv.
C8_FilePathResolution ==
  lastOp = "callback" =>
    LET matched == SelectSeq(LineFacts(lastDone.stderr), LAMBDA f : f.matched)
        files == FileEntries(console)
    IN /\ Len(files) = Len(matched)
       /\ \A i \in 1..Len(matched) :
            LET cap == matched[i].path
            IN /\ lastDone.runAt => files[i].text = cap
               /\ (~lastDone.runAt /\ PathIsAbsolute(cap, isWindows))
                    => files[i].text = cap
               /\ (~lastDone.runAt /\ ~PathIsAbsolute(cap, isWindows))
                    => files[i].text = PathJoin(rootPath, cap, isWindows)
               /\ (~lastDone.runAt /\ ~isWindows /\ cap = <<"f","o","o",".","s","v">>)
                    => files[i].text = <<"/","p","r","o","j","/","f","o","o",".","s","v">>

\* not at the file location: an absolute path was kept and a relative one
\* was filed under the workspace root
C8_Witness ==
  /\ lastOp = "callback"
  /\ ~lastDone.runAt
  /\ ~isWindows
  /\ UriFile(<<"/","p","r","o","j","/","f","o","o",".","s","v">>)
       \in DOMAIN diagnosticCollection

\* C9: the command handed to child.exec has no two consecutive spaces.
C9_NoDoubledSeparators ==
  launched.launched =>
    \A i \in 1..(Len(launched.command) - 1) :
      ~(launched.command[i] = " " /\ launched.command[i + 1] = " ")

\* the diagnostics printed on the console, in the order of their lines
Accepted(c) ==
  [i \in 1..Len(DiagEntries(c)) |->
     [filename |-> FileEntries(c)[i].text,
      severity |-> DiagEntries(c)[i].severity,
      lineNum |-> DiagEntries(c)[i].lineNum,
      message |-> DiagEntries(c)[i].text]]

Brief(d) == [severity |-> d.severity, lineNum |-> d.range.startLine, message |-> d.message]
BriefOfAccepted(a) == [severity |-> a.severity, lineNum |-> a.lineNum, message |-> a.message]

\* the accepted diagnostics of one file, in order
AcceptedFor(acc, filename) ==
  LET own == SelectSeq(acc, LAMBDA a : a.filename = filename)
  IN [i \in 1..Len(own) |-> BriefOfAccepted(own[i])]

\* C10: the DiagnosticSet has one key per distinct file path of the
\* accepted diagnostics; the list under a key is the accepted diagnostics of
\* that path in the order of their lines; none is lost or duplicated; and
\* the collection holds each list under its own file path.
C10_GroupedInOrder ==
  lastOp = "callback" =>
    LET acc == Accepted(console)
        ds == lastDone.diagnostics
    IN /\ \A i, j \in 1..Len(ds) : ds[i].filename = ds[j].filename => i = j
       /\ {ds[i].filename : i \in 1..Len(ds)} = {acc[i].filename : i \in 1..Len(acc)}
       /\ \A i \in 1..Len(ds) :
            /\ [k \in 1..Len(ds[i].list) |-> Brief(ds[i].list[k])]
                 = AcceptedFor(acc, ds[i].filename)
            /\ UriFile(ds[i].filename) \in DOMAIN diagnosticCollection
            /\ diagnosticCollection[UriFile(ds[i].filename)] = ds[i].list
       /\ Cardinality(DOMAIN diagnosticCollection) = Len(ds)

\* three accepted lines, the first and the third for the same file: two
\* keys, foo.sv first with its two diagnostics in line order
C10_Witness ==
  /\ lastOp = "callback"
  /\ Len(lastDone.diagnostics) = 2
  /\ Len(lastDone.diagnostics[1].list) = 2
  /\ lastDone.diagnostics[1].list[1].range.startLine = 4
  /\ lastDone.diagnostics[1].list[2].range.startLine = 6
  /\ Len(lastDone.diagnostics[2].list) = 1
  /\ Cardinality(DOMAIN diagnosticCollection) = 2


====
